---- MODULE Spec2Model ----
(***************************************************************************)
(* A model of todo-molten (src/app.py): a Todobackend REST service over a  *)
(* single sqlite table, served through a CORS middleware.                   *)
(*                                                                         *)
(* Optional values (Python None / SQL NULL) are sequences of length <= 1:  *)
(* None is <<>> and a present value v is <<v>>.  Strings that the code     *)
(* parses (the {todo_id} path segment) are sequences of characters.        *)
(***************************************************************************)
EXTENDS Integers, Sequences, FiniteSets, TLC

\* ------------------------------------------------------------------ bounds
\* The largest rowid an INSERT may take (CreateTodo is disabled beyond it).
MaxRowid == 2

None == <<>>
Some(v) == <<v>>

Titles == {"a"}
Orders == {1, 2}
OptTitles == {None} \cup {Some(t) : t \in Titles}
OptOrders == {None} \cup {Some(o) : o \in Orders}

\* --------------------------------------------------- strings and integers
DigitChars == <<"0", "1", "2", "3", "4", "5", "6", "7", "8", "9">>
Digits == {DigitChars[i] : i \in 1..Len(DigitChars)}
DigitVal(c) == (CHOOSE i \in 1..Len(DigitChars) : DigitChars[i] = c) - 1

\* The {todo_id} path segments requests are made with: "0" (never a rowid),
\* the digit of every rowid, the zero-padded "01" and the non-numeric "a".
PathIds ==
    {<<DigitChars[i + 1]>> : i \in 0..MaxRowid} \cup {<<"a">>, <<"0", "1">>}

IsDecimal(s) == Len(s) > 0 /\ \A i \in 1..Len(s) : s[i] \in Digits

RECURSIVE DecimalValue(_)
DecimalValue(s) ==
    IF Len(s) = 0 THEN 0
    ELSE 10 * DecimalValue(SubSeq(s, 1, Len(s) - 1)) + DigitVal(s[Len(s)])

\* Python int(str): the value of a decimal literal, ValueError otherwise.
int(s) ==
    IF IsDecimal(s) THEN [raised |-> FALSE, value |-> DecimalValue(s)]
    ELSE [raised |-> TRUE, value |-> 0]

\* Python str(int), as f-strings format a non-negative integer.
RECURSIVE str(_)
str(n) ==
    IF n < 10 THEN <<DigitChars[n + 1]>>
    ELSE str(n \div 10) \o <<DigitChars[(n % 10) + 1]>>

\* ---------------------------------------------------------------- storage
\* A table maps the rowids in use to rows; a connection holds the committed
\* table and the table as the connection sees it (uncommitted writes too).
StoredBools == {Some(0), Some(1)}
Rows == [title : OptTitles, completed : StoredBools, order : OptOrders]

EmptyTable == [r \in {} |-> None]

Commit(db) == [committed |-> db.working, working |-> db.working]
Rollback(db) == [committed |-> db.committed, working |-> db.committed]

\* DB.__init__: connect and create the table if it does not exist.
DB == [committed |-> EmptyTable, working |-> EmptyTable]

\* A mutation of get_cursor: the except branch does not roll back.
get_cursor_no_rollback(body, commit_fails) ==
    IF body.raised \/ commit_fails
    THEN [db |-> body.db, raised |-> TRUE, value |-> None]
    ELSE [db |-> Commit(body.db), raised |-> FALSE, value |-> body.value]

\* DB.get_cursor around a body that ended as `body`: commit when the body
\* returned, roll back and re-raise when the body or the commit raised.
get_cursor(body, commit_fails) ==
    IF body.raised \/ commit_fails
    THEN [db |-> Rollback(body.db), raised |-> TRUE, value |-> None]
    ELSE [db |-> Commit(body.db), raised |-> FALSE, value |-> body.value]

Raise(db) == [db |-> db, raised |-> TRUE, value |-> None]
Return(db, v) == [db |-> db, raised |-> FALSE, value |-> v]

\* sqlite binds a Python int as INTEGER and a Python str as TEXT.
IntParam(n) == [t |-> "int", n |-> n, s |-> <<>>]
TextParam(s) == [t |-> "text", n |-> 0, s |-> s]

\* `rowid = ?`: a TEXT operand that is a numeric literal is converted by the
\* column's integer affinity; any other text equals no rowid.
RowidEquals(rowid, param) ==
    IF param.t = "int" THEN rowid = param.n
    ELSE IsDecimal(param.s) /\ DecimalValue(param.s) = rowid

MatchingRowids(table, param) == {r \in DOMAIN table : RowidEquals(r, param)}

\* sqlite binds True as 1, False as 0 and None as NULL.
BindBool(b) == IF b = None THEN None ELSE IF b[1] THEN Some(1) ELSE Some(0)

\* The rowid sqlite gives an inserted row: one more than the largest in use.
RECURSIVE MaxOf(_)
MaxOf(S) ==
    IF S = {} THEN 0
    ELSE LET x == CHOOSE x \in S : TRUE
             m == MaxOf(S \ {x})
         IN IF x > m THEN x ELSE m

lastrowid(table) == MaxOf(DOMAIN table) + 1

Insert(table, row) ==
    [r \in DOMAIN table \cup {lastrowid(table)} |->
        IF r \in DOMAIN table THEN table[r] ELSE row]

Update(table, param, row) ==
    [r \in DOMAIN table |-> IF RowidEquals(r, param) THEN row ELSE table[r]]

Delete(table, param) ==
    [r \in DOMAIN table \ MatchingRowids(table, param) |-> table[r]]

WithWorking(db, table) == [committed |-> db.committed, working |-> table]

\* ------------------------------------------------------------ Todo schema
\* The request body of POST and PATCH: title and order are absent (or null)
\* or given; completed is absent, true or false.
BodyCompleted == {"missing", "true", "false"}
Bodies == [title : OptTitles, order : OptOrders, completed : BodyCompleted]

\* A mutation of the schema: completed has no default.
TodoNoDefault(body) ==
    [id |-> None,
     title |-> body.title,
     order |-> body.order,
     url |-> None,
     completed |-> CASE body.completed = "missing" -> None
                     [] body.completed = "true" -> Some(TRUE)
                     [] body.completed = "false" -> Some(FALSE)]

\* The Todo schema loaded from a request body: id and url are response-only,
\* title and order default to None, completed defaults to False.
Todo(body) ==
    [id |-> None,
     title |-> body.title,
     order |-> body.order,
     url |-> None,
     completed |-> CASE body.completed = "missing" -> Some(FALSE)
                     [] body.completed = "true" -> Some(TRUE)
                     [] body.completed = "false" -> Some(FALSE)]

\* ------------------------------------------------------------ TodoManager
\* TodoManager._map_todo on the row `rowid` of `table`, as the Todo built
\* from it: completed is False for a stored 0 and True otherwise.
_map_todo(table, rowid) ==
    [id |-> Some(rowid),
     title |-> table[rowid].title,
     order |-> table[rowid].order,
     url |-> Some(<<"https://todo-molten.herokuapp.com/v1/todos/", str(rowid)>>),
     completed |-> Some(IF table[rowid].completed = Some(0) THEN FALSE ELSE TRUE)]

\* TodoManager.get_by_id; `select_fails` says whether its SELECT raises and
\* `commit_fails` whether the commit that ends it does (a commit can fail
\* only when a write is pending on the connection).
get_by_id(db, param, select_fails, commit_fails) ==
    get_cursor(
        IF select_fails THEN Raise(db)
        ELSE LET found == MatchingRowids(db.working, param)
             IN IF found = {} THEN Return(db, None)
                ELSE Return(db, Some(_map_todo(db.working, CHOOSE r \in found : TRUE))),
        commit_fails)

\* TodoManager.create; `fault` is the ordinal of the storage call that
\* raises (1 the INSERT, 2 the SELECT that reads the row back, 3 the commit
\* that ends get_by_id), 0 for none.  The commit on leaving the outer `with`
\* finds nothing pending.
create(db, todo, fault) ==
    get_cursor(
        IF fault = 1 THEN Raise(db)
        ELSE LET row == [title |-> todo.title,
                         completed |-> BindBool(todo.completed),
                         order |-> todo.order]
                 id == lastrowid(db.working)
                 inserted == WithWorking(db, Insert(db.working, row))
             IN get_by_id(inserted, IntParam(id), fault = 2, fault = 3),
        FALSE)

\* A mutation of the ORDER BY of get_all: ascending.
order_asc(a, b) == a = None \/ (b # None /\ a[1] <= b[1])

\* `order by "order" desc`: may a row of order a come right before one of
\* order b (NULL sorts below every integer, so last).
order_desc(a, b) == b = None \/ (a # None /\ a[1] >= b[1])

\* The row orders a SELECT ... ORDER BY may produce: every arrangement of
\* the rows that respects the ordering (SQL leaves ties unordered).
Arrangements(table) ==
    LET ids == DOMAIN table
        n == Cardinality(ids)
    IN {s \in [1..n -> ids] :
            /\ \A i, j \in 1..n : i # j => s[i] # s[j]
            /\ \A i \in 1..n : i < n =>
                   order_desc(table[s[i]].order, table[s[i + 1]].order)}

\* TodoManager.get_all, its rows fetched in the arrangement `arr`.
get_all(db, arr, fault) ==
    get_cursor(
        IF fault = 1 THEN Raise(db)
        ELSE Return(db, [i \in 1..Len(arr) |-> _map_todo(db.working, arr[i])]),
        FALSE)

\* A mutation of the merge of update_by_id: every field of the updates
\* overwrites, None included.
merge_overwrite(todo, updates) ==
    [id |-> todo.id, title |-> updates.title, order |-> updates.order,
     url |-> todo.url, completed |-> updates.completed]

\* The attribute loop of update_by_id: a field of the updates that is not
\* None overwrites the loaded todo's.
merge(todo, updates) ==
    [id |-> todo.id,
     title |-> IF updates.title # None THEN updates.title ELSE todo.title,
     order |-> IF updates.order # None THEN updates.order ELSE todo.order,
     url |-> todo.url,
     completed |-> IF updates.completed # None THEN updates.completed
                   ELSE todo.completed]

RowOf(todo) ==
    [title |-> todo.title, completed |-> BindBool(todo.completed),
     order |-> todo.order]

\* A mutation of the UPDATE statement: the completed column is not set.
update_execute_no_completed(db, param, todo) ==
    WithWorking(db,
        [r \in DOMAIN db.working |->
            IF RowidEquals(r, param)
            THEN [title |-> todo.title, completed |-> db.working[r].completed,
                  order |-> todo.order]
            ELSE db.working[r]])

\* The UPDATE statement of update_by_id, executed on the connection.
update_execute(db, param, todo) ==
    WithWorking(db, Update(db.working, param, RowOf(todo)))

\* The `with` block of update_by_id: the UPDATE of the merged todo, then the
\* SELECT that reads it back.
update_write(db, param, todo, fault) ==
    get_cursor(
        IF fault = 2 THEN Raise(db)
        ELSE get_by_id(update_execute(db, param, todo), param, fault = 3, fault = 4),
        FALSE)

\* TodoManager.update_by_id; `fault` is the ordinal of the storage call that
\* raises (1 the first SELECT, 2 the UPDATE, 3 the last SELECT, 4 the commit
\* that ends the last get_by_id), 0 for none.
update_by_id(db, param, updates, fault) ==
    LET loaded == get_by_id(db, param, fault = 1, FALSE)
    IN IF loaded.raised \/ loaded.value = None THEN loaded
       ELSE update_write(loaded.db, param, merge(loaded.value[1], updates), fault)

\* A mutation of delete_by_id: the WHERE clause is lost.
delete_by_id_all(db, param, fault) ==
    get_cursor(
        IF fault = 1 THEN Raise(db)
        ELSE Return(WithWorking(db, EmptyTable), None),
        fault = 2)

\* TodoManager.delete_by_id; `fault` is the ordinal of the storage call that
\* raises (1 the DELETE, 2 the commit), 0 for none.
delete_by_id(db, param, fault) ==
    get_cursor(
        IF fault = 1 THEN Raise(db)
        ELSE Return(WithWorking(db, Delete(db.working, param)), None),
        fault = 2)

\* TodoManager.delete_all; `fault` as in delete_by_id.
delete_all_rows(db, fault) ==
    get_cursor(
        IF fault = 1 THEN Raise(db)
        ELSE Return(WithWorking(db, EmptyTable), None),
        fault = 2)

\* --------------------------------------------------------------- handlers
\* What a handler produces: a returned (status, data), a raised HTTPError
\* carrying (status, data), or any other exception; and the connection after.
Returned(db, status, data) ==
    [db |-> db, kind |-> "return", status |-> status, data |-> data]
HTTPError(db, status, data) ==
    [db |-> db, kind |-> "httperror", status |-> status, data |-> data]
Exception(db) ==
    [db |-> db, kind |-> "exception", status |-> 0, data |-> [t |-> "none", v |-> None]]

NoData == [t |-> "none", v |-> None]
TodoData(todo) == [t |-> "todo", v |-> todo]
ListData(todos) == [t |-> "list", v |-> todos]
\* A mutation of the error body: the id is formatted after int().
NotFoundNormalised(todo_id) ==
    [t |-> "error", v |-> <<"todo ", str(int(todo_id).value), " not found">>]

\* {"error": f"todo {todo_id} not found"}
NotFound(todo_id) == [t |-> "error", v |-> <<"todo ", todo_id, " not found">>]

options_todos(db) == Returned(db, 204, NoData)

list_todos(db, arr, fault) ==
    LET r == get_all(db, arr, fault)
    IN IF r.raised THEN Exception(r.db) ELSE Returned(r.db, 200, ListData(r.value))

options_todo(db, todo_id) == Returned(db, 204, NoData)

get_todo(db, todo_id, fault) ==
    LET n == int(todo_id)
        r == get_by_id(db, IntParam(n.value), fault = 1, FALSE)
    IN IF n.raised THEN Exception(db)
       ELSE IF r.raised THEN Exception(r.db)
       ELSE IF r.value = None THEN HTTPError(r.db, 404, NotFound(todo_id))
       ELSE Returned(r.db, 200, TodoData(r.value[1]))

create_todo(db, todo, fault) ==
    LET r == create(db, todo, fault)
    IN IF r.raised THEN Exception(r.db)
       ELSE Returned(r.db, 201, TodoData(r.value[1]))

update_todo(db, todo_id, todo, fault) ==
    LET r == update_by_id(db, TextParam(todo_id), todo, fault)
    IN IF r.raised THEN Exception(r.db)
       ELSE IF r.value = None THEN HTTPError(r.db, 404, NotFound(todo_id))
       ELSE Returned(r.db, 200, TodoData(r.value[1]))

\* A mutation of delete_todo: a missing row is answered with 404.
delete_todo_strict(db, todo_id, fault) ==
    LET n == int(todo_id)
        r == delete_by_id(db, IntParam(n.value), fault)
    IN IF n.raised THEN Exception(db)
       ELSE IF r.raised THEN Exception(r.db)
       ELSE IF MatchingRowids(db.working, IntParam(n.value)) = {}
            THEN HTTPError(r.db, 404, NotFound(todo_id))
       ELSE Returned(r.db, 204, NoData)

delete_todo(db, todo_id, fault) ==
    LET n == int(todo_id)
        r == delete_by_id(db, IntParam(n.value), fault)
    IN IF n.raised THEN Exception(db)
       ELSE IF r.raised THEN Exception(r.db)
       ELSE Returned(r.db, 204, NoData)

delete_all(db, fault) ==
    LET r == delete_all_rows(db, fault)
    IN IF r.raised THEN Exception(r.db)
       ELSE Returned(r.db, 200, ListData(<<>>))

\* ------------------------------------------------------------- middleware
CORSHeaders ==
    {<<"access-control-allow-origin", "*">>,
     <<"access-control-allow-headers", "Accept, Content-Type">>,
     <<"access-control-allow-methods", "*">>}

Response(status, content, headers) ==
    [status |-> status, content |-> content, headers |-> headers]

\* ResponseRendererMiddleware, second in `middleware`: renders what the
\* handler returned or the HTTPError it raised; other exceptions pass.
ResponseRendererMiddleware(h) ==
    IF h.kind = "exception" THEN [raised |-> TRUE, response |-> Response(0, NoData, {})]
    ELSE [raised |-> FALSE,
          response |-> Response(h.status, h.data,
                                {<<"content-type", "application/json">>})]

\* A mutation of CORSMiddleware: the allow-origin header is not sent.
CORSMiddlewareNoOrigin(inner) ==
    IF inner.raised THEN inner
    ELSE [raised |-> FALSE,
          response |-> Response(inner.response.status, inner.response.content,
                                inner.response.headers)]

\* CORSMiddleware.__call__.handle: response = handler(); the headers are
\* added to the response it returned.  An exception of handler() passes.
CORSMiddleware(inner) ==
    IF inner.raised THEN inner
    ELSE [raised |-> FALSE,
          response |-> Response(inner.response.status, inner.response.content,
                                inner.response.headers \cup CORSHeaders)]

\* The application: the handler inside `middleware`, first one outermost; an
\* exception that leaves the chain is answered with a 500 of the framework.
App(h) ==
    LET out == CORSMiddleware(ResponseRendererMiddleware(h))
    IN IF out.raised THEN Response(500, NoData, {}) ELSE out.response

\* ---------------------------------------------------------- state machine
VARIABLES
    db,       \* the singleton connection: committed and working table
    req,      \* the request served last
    result,   \* how its handler ended: "return", "httperror", "exception"
    resp,     \* the response sent for it
    before,   \* the committed table when it arrived
    race      \* two PATCH requests in flight on one id, step by step

vars == <<db, req, result, resp, before, race>>

NoBody == [title |-> None, order |-> None, completed |-> "missing"]
Request(method, path, body, fault) ==
    [method |-> method, path |-> path, body |-> body, fault |-> fault]

\* No request is in flight.
NoRace ==
    [pc |-> <<"done", "done">>, updates |-> <<Todo(NoBody), Todo(NoBody)>>,
     todo |-> <<None, None>>, status |-> <<0, 0>>, writes |-> <<>>]

Init ==
    /\ race = NoRace
    /\ db = DB
    /\ req = Request("NONE", <<>>, NoBody, 0)
    /\ result = "none"
    /\ resp = Response(0, NoData, {})
    /\ before = EmptyTable

Idle == req.method = "NONE"

\* One request, served from its arrival to its response; `handled` is what
\* its handler does on the connection as it stands.
Serve(request, handled) ==
    LET h == handled
    IN
    /\ db' = h.db
    /\ req' = request
    /\ result' = h.kind
    /\ resp' = App(h)
    /\ before' = db.committed
    /\ UNCHANGED race

OptionsTodos == Idle /\ Serve(Request("OPTIONS", <<>>, NoBody, 0), options_todos(db))

ListTodos ==
    /\ Idle
    /\ \E fault \in 0..1, arr \in Arrangements(db.working) :
        Serve(Request("GET", <<>>, NoBody, fault), list_todos(db, arr, fault))

CreateTodo ==
    /\ Idle
    /\ lastrowid(db.working) <= MaxRowid
    /\ \E body \in Bodies, fault \in 0..3 :
        Serve(Request("POST", <<>>, body, fault), create_todo(db, Todo(body), fault))

DeleteAll ==
    /\ Idle
    /\ \E fault \in 0..2 :
        Serve(Request("DELETE", <<>>, NoBody, fault), delete_all(db, fault))

OptionsTodo ==
    /\ Idle
    /\ \E id \in PathIds :
        Serve(Request("OPTIONS", id, NoBody, 0), options_todo(db, id))

GetTodo ==
    /\ Idle
    /\ \E id \in PathIds, fault \in 0..1 :
        Serve(Request("GET", id, NoBody, fault), get_todo(db, id, fault))

UpdateTodo ==
    /\ Idle
    /\ \E id \in PathIds, body \in Bodies, fault \in 0..4 :
        Serve(Request("PATCH", id, body, fault), update_todo(db, id, Todo(body), fault))

DeleteTodo ==
    /\ Idle
    /\ \E id \in PathIds, fault \in 0..2 :
        Serve(Request("DELETE", id, NoBody, fault), delete_todo(db, id, fault))

\* The response is sent and the server waits for the next request.
Await ==
    /\ ~Idle
    /\ req' = Request("NONE", <<>>, NoBody, 0)
    /\ result' = "none"
    /\ resp' = Response(0, NoData, {})
    /\ before' = EmptyTable
    /\ UNCHANGED <<db, race>>

Next ==
    \/ Await
    \/ OptionsTodos
    \/ ListTodos
    \/ CreateTodo
    \/ DeleteAll
    \/ OptionsTodo
    \/ GetTodo
    \/ UpdateTodo
    \/ DeleteTodo

Spec == Init /\ [][Next]_vars

\* ------------------------------------------------ two concurrent PATCHes
\* Two requests PATCH /v1/todos/1 run update_todo on the singleton
\* connection, their statements interleaved: the SELECT of get_by_id, the
\* attribute loop, the UPDATE, and the SELECT that reads the row back
\* followed by the commit that ends the `with` block.
Requests == {1, 2}
RaceId == <<"1">>

InitRace ==
    /\ \E row \in Rows : db = Commit(WithWorking(DB, Insert(EmptyTable, row)))
    /\ \E b1, b2 \in Bodies :
           race = [pc |-> <<"load", "load">>,
                   updates |-> <<Todo(b1), Todo(b2)>>,
                   todo |-> <<None, None>>,
                   status |-> <<0, 0>>,
                   writes |-> <<>>]
    /\ req = Request("NONE", <<>>, NoBody, 0)
    /\ result = "none"
    /\ resp = Response(0, NoData, {})
    /\ before = db.committed

RaceStep(p, pc, todo, status, writes) ==
    race' = [race EXCEPT !.pc[p] = pc, !.todo[p] = todo, !.status[p] = status,
                         !.writes = writes]

\* todo = self.get_by_id(todo_id); a missing row ends the request with 404.
Load(p) ==
    /\ race.pc[p] = "load"
    /\ LET r == get_by_id(db, TextParam(RaceId), FALSE, FALSE)
       IN /\ db' = r.db
          /\ IF r.value = None
             THEN RaceStep(p, "done", None, 404, race.writes)
             ELSE RaceStep(p, "merge", r.value, 0, race.writes)
    /\ UNCHANGED <<req, result, resp, before>>

\* The attribute loop over title, completed and order.
Merge(p) ==
    /\ race.pc[p] = "merge"
    /\ RaceStep(p, "update", Some(merge(race.todo[p][1], race.updates[p])), 0,
                race.writes)
    /\ UNCHANGED <<db, req, result, resp, before>>

\* cursor.execute('update todos set ...').
Write(p) ==
    /\ race.pc[p] = "update"
    /\ db' = update_execute(db, TextParam(RaceId), race.todo[p][1])
    /\ RaceStep(p, "readback", race.todo[p], 0, Append(race.writes, p))
    /\ UNCHANGED <<req, result, resp, before>>

\* return self.get_by_id(todo_id), the commit on leaving the `with` block,
\* and the response of update_todo.
ReadBack(p) ==
    /\ race.pc[p] = "readback"
    /\ LET r == get_cursor(get_by_id(db, TextParam(RaceId), FALSE, FALSE), FALSE)
       IN /\ db' = r.db
          /\ RaceStep(p, "done", race.todo[p],
                      IF r.value = None THEN 404 ELSE 200, race.writes)
    /\ UNCHANGED <<req, result, resp, before>>

NextRace == \E p \in Requests : Load(p) \/ Merge(p) \/ Write(p) \/ ReadBack(p)

SpecRace == InitRace /\ [][NextRace]_vars

\* ----------------------------------------------------------------- claims
AllowOrigin == <<"access-control-allow-origin", "*">>

\* The last request was `method` on /v1/todos/{id} with an integer id, and
\* no storage statement was made to fail.
OnId(method) == req.method = method /\ IsDecimal(req.path) /\ req.fault = 0
Target == DecimalValue(req.path)
OnCollection(method) == req.method = method /\ req.path = <<>> /\ req.fault = 0

OnlyCompleted == [title |-> None, order |-> None, completed |-> "true"]

Without(table, rowid) == [r \in DOMAIN table \ {rowid} |-> table[r]]

\* C1: a PATCH with the empty body {} on a stored todo leaves its title,
\* completed and order as they were and returns the record as it was.
C1_EmptyPatchChangesNothing ==
    (OnId("PATCH") /\ req.body = NoBody /\ Target \in DOMAIN before) =>
        /\ db.committed = before
        /\ resp.status = 200
        /\ resp.content.t = "todo"
        /\ resp.content.v = _map_todo(before, Target)

\* C2: a PATCH with {"completed": true} on a stored todo sets completed and
\* changes nothing else: its id, title and order stay, and so does every
\* other stored todo.
C2_CompletedOnly ==
    (OnId("PATCH") /\ req.body = OnlyCompleted /\ Target \in DOMAIN before) =>
        /\ DOMAIN db.committed = DOMAIN before
        /\ db.committed[Target].completed = Some(1)
        /\ db.committed[Target].title = before[Target].title
        /\ db.committed[Target].order = before[Target].order
        /\ \A r \in DOMAIN before \ {Target} : db.committed[r] = before[r]
        /\ resp.status = 200
        /\ resp.content.t = "todo"
        /\ resp.content.v.id = Some(Target)
        /\ resp.content.v.completed = Some(TRUE)
        /\ resp.content.v.title = before[Target].title
        /\ resp.content.v.order = before[Target].order

C2_Witness ==
    /\ OnId("PATCH") /\ req.body = OnlyCompleted /\ Target \in DOMAIN before
    /\ before[Target] = [title |-> Some("a"), completed |-> Some(0), order |-> Some(2)]
    /\ Cardinality(DOMAIN before) = 2
    /\ db.committed[Target].completed = Some(1)

\* C3: every response carries Access-Control-Allow-Origin: *, whatever the
\* route and the outcome.
C3_AllowOriginAlways == ~Idle => AllowOrigin \in resp.headers

\* C4: a repository operation that raises leaves the table as it was when
\* the operation started and the exception reaches the caller; one that
\* completes has its writes committed.
C4_Atomic ==
    ~Idle =>
        /\ (req.fault > 0 /\ (req.method = "PATCH" /\ req.fault > 1
                                 => IsDecimal(req.path) /\ Target \in DOMAIN before))
               => result = "exception"
        /\ result = "exception" =>
               /\ db.committed = before
               /\ db.working = before
               /\ resp.status = 500
        /\ result # "exception" => db.working = db.committed

\* An update whose UPDATE changed the row and was read back, and whose
\* commit then raised.
C4_Witness ==
    /\ result = "exception"
    /\ req.method = "PATCH" /\ req.fault = 4 /\ IsDecimal(req.path)
    /\ Target \in DOMAIN before
    /\ RowOf(merge(_map_todo(before, Target), Todo(req.body))) # before[Target]
    /\ db.committed = before

\* C6: GET and PATCH on an integer id that has no row answer 404 with the
\* body {"error": "todo {id} not found"}, and the table is left as it was.
C6_NotFound ==
    ((OnId("GET") \/ OnId("PATCH")) /\ Target \notin DOMAIN before) =>
        /\ resp.status = 404
        /\ resp.content.t = "error"
        /\ resp.content.v = <<"todo ", req.path, " not found">>
        /\ db.committed = before
        /\ db.working = before

C6_Witness ==
    /\ OnId("PATCH") /\ req.path = <<"0", "1">> /\ req.body.title # None
    /\ DOMAIN before = {2}
    /\ resp.status = 404

\* C7: GET /v1/todos returns every stored todo exactly once, by order
\* descending (a todo without order after every todo with one).
C7_ListSorted ==
    OnCollection("GET") =>
        /\ resp.status = 200
        /\ resp.content.t = "list"
        /\ LET l == resp.content.v
           IN /\ Len(l) = Cardinality(DOMAIN before)
              /\ {l[i].id[1] : i \in 1..Len(l)} = DOMAIN before
              /\ \A i \in 1..Len(l) : l[i] = _map_todo(before, l[i].id[1])
              /\ \A i, j \in 1..Len(l) :
                     i < j =>
                        /\ l[i].order = None => l[j].order = None
                        /\ (l[i].order # None /\ l[j].order # None)
                               => l[i].order[1] >= l[j].order[1]

\* The todo inserted first has the smaller order and is listed last.
C7_Witness ==
    /\ OnCollection("GET")
    /\ DOMAIN before = {1, 2}
    /\ before[1].order = Some(1) /\ before[2].order = Some(2)
    /\ resp.content.v[1].id = Some(2) /\ resp.content.v[2].id = Some(1)

\* C8: a create that gives title and order and no completed returns a
\* record whose id no other stored todo has, and get_by_id on that id
\* yields the same title and order and completed = false.
C8_CreateThenGet ==
    (OnCollection("POST") /\ req.body.title # None /\ req.body.order # None
        /\ req.body.completed = "missing") =>
        /\ resp.status = 201
        /\ resp.content.t = "todo"
        /\ LET id == resp.content.v.id[1]
               got == get_by_id(db, IntParam(id), FALSE, FALSE)
           IN /\ id \notin DOMAIN before
              /\ DOMAIN db.committed = DOMAIN before \cup {id}
              /\ \A r \in DOMAIN before : db.committed[r] = before[r]
              /\ ~got.raised
              /\ got.value # None
              /\ got.value[1].id = Some(id)
              /\ got.value[1].title = req.body.title
              /\ got.value[1].order = req.body.order
              /\ got.value[1].completed = Some(FALSE)
              /\ got.value[1] = resp.content.v

\* A create next to a stored, completed todo: the new one takes rowid 2.
C8_Witness ==
    /\ OnCollection("POST") /\ req.body.title # None /\ req.body.order # None
    /\ req.body.completed = "missing"
    /\ DOMAIN before = {1}
    /\ before[1].completed = Some(1)
    /\ resp.content.v.id = Some(2)

\* C9: after DELETE on an integer id, get_by_id on it returns absent and
\* GET answers 404, every other stored todo is as it was, and no request
\* other than a create brings a row into being.
C9_DeletedStaysAbsent ==
    /\ OnId("DELETE") =>
           /\ db.committed = Without(before, Target)
           /\ db.working = db.committed
           /\ get_by_id(db, IntParam(Target), FALSE, FALSE).value = None
           /\ App(get_todo(db, req.path, 0)).status = 404
    /\ (~Idle /\ req.method # "POST") => DOMAIN db.committed \subseteq DOMAIN before

C9_Witness ==
    /\ OnId("DELETE")
    /\ DOMAIN before = {1, 2}
    /\ Target = 1
    /\ DOMAIN db.committed = {2}

\* C10: DELETE on an integer id that has no row answers 204 with an empty
\* body, raises nothing and leaves the table as it was; another DELETE of
\* an id just deleted has the same response and effect.
C10_DeleteAbsent ==
    /\ (OnId("DELETE") /\ Target \notin DOMAIN before) =>
           /\ result = "return"
           /\ resp.status = 204
           /\ resp.content.t = "none"
           /\ db.committed = before
           /\ db.working = before
    /\ OnId("DELETE") =>
           LET again == delete_todo(db, req.path, 0)
           IN /\ again.db = db
              /\ App(again) = resp

C10_Witness ==
    /\ OnId("DELETE") /\ Target \notin DOMAIN before
    /\ DOMAIN before = {2}
    /\ Target = 1
    /\ resp.status = 204

\* C5: when both PATCH requests have ended, neither failed, and the stored
\* title, completed and order are those of the merged record of the request
\* whose UPDATE ran last.
RaceDone == \A p \in Requests : race.pc[p] = "done"
LastWriter == race.writes[Len(race.writes)]

====
